---------------------------- MODULE Spec2Model ----------------------------
(***************************************************************************)
(* A model of the MSTY dividend calculator: the finance service            *)
(* (financeService.js: yields, the dividend estimate, the payout dates,    *)
(* the reconciliation of the dividend series against the calendar) and    *)
(* the dashboard component's projection and scenario state.                *)
(*                                                                         *)
(* Numbers.  A JavaScript number is modelled as an exact rational <<n, d>> *)
(* in lowest terms with d > 0; <<0, 0>> is NaN and <<1, 0>>, <<-1, 0>> the *)
(* infinities.  Rounding is where the code rounds (toFixed).               *)
(*                                                                         *)
(* Randomness.  Math.random() is the value r / RandSteps for some r in     *)
(* 0 .. RandSteps-1, so it lies in [0, 1) as in the engine.                *)
(*                                                                         *)
(* Time.  A Date is <<day, ms>>: the local calendar day as a day number    *)
(* and the time elapsed since local midnight, 0 meaning midnight exactly.  *)
(***************************************************************************)
EXTENDS Integers, Sequences, FiniteSets, TLC

VARIABLES
    dividends,      \* the series handed to / returned by the service
    currentPrice,   \* the price argument of the service functions
    today,          \* new Date(): <<day number, time since local midnight>>
    tz,             \* the local zone's offset from UTC, minutes east
    input,          \* the series the first service call was handed
    out,            \* the last service call and what it returned
    net,            \* what each remote endpoint answers
    requests,       \* the endpoints requested so far, in order
    \* the dashboard component's state (useState)
    priceData,
    dividendHistory,
    averageMonthlyDividend,
    annualYield,
    loading,
    error,                  \* "" for null
    refreshCounter,
    investmentAmount,
    customDividendAmount,   \* the text of the input: <<>> when empty, else
                            \* the number it parses to
    useCustomDividend,
    scenarioName,
    calculatedResults,
    events,                 \* the last two user events the dashboard handled
    \* the dashboard component's life
    mounted,                \* FALSE once the component has unmounted
    timerOn,                \* the setInterval timer is set and not cleared
    inflight,               \* the loadData runs started and not yet finished
    runs                    \* those runs, oldest first: where each stands and
                            \* what its local constants hold

\* what a service call reads and leaves alone
svcArgs == <<currentPrice, today, tz, input, net, requests>>

svcVars == <<dividends, svcArgs, out>>

uiLife == <<mounted, timerOn, inflight, runs>>

uiData == <<priceData, dividendHistory, averageMonthlyDividend, annualYield,
            loading, error, refreshCounter, uiLife>>

uiScenario == <<customDividendAmount, useCustomDividend, scenarioName>>

uiVars == <<uiData, investmentAmount, uiScenario, calculatedResults, events>>

vars == <<svcVars, uiVars>>

-----------------------------------------------------------------------------
(* Bounds of the model *)

\* Math.random() takes the values 0/RandSteps .. (RandSteps-1)/RandSteps
RandSteps == 4

\* the longest series the yield specification draws (more than 12 records)
MaxYieldLen == 13

\* the longest series the estimate specification draws (more than 6 records)
MaxEstimateLen == 7

\* the longest fetched series the reconciliation specifications draw
MaxSeriesLen == 2

\* times of day: 0 is local midnight, 1 .. MaxTimeOfDay are later instants
MaxTimeOfDay == 1

\* the timer ticks at most MaxTicks times
MaxTicks == 2

\* at most MaxRuns loadData runs are followed step by step at a time
MaxRuns == 2

-----------------------------------------------------------------------------
(* Numbers *)

Abs(x) == IF x < 0 THEN -x ELSE x

Sign(x) == IF x < 0 THEN -1 ELSE IF x = 0 THEN 0 ELSE 1

Min(a, b) == IF a <= b THEN a ELSE b

RECURSIVE GCD(_, _)
GCD(a, b) == IF b = 0 THEN a ELSE GCD(b, a % b)

\* the non-finite numbers: 0/0, and a nonzero number over zero
NaN == <<0, 0>>

Infinity == <<1, 0>>

IsNaN(x) == x = NaN

IsFinite(x) == x[2] # 0

\* the number n/d in lowest terms with d > 0; n/0 is NaN or +-Infinity
Rat(n, d) ==
    IF d = 0 THEN <<Sign(n), 0>>
    ELSE LET g == GCD(Abs(n), Abs(d))
             s == IF d < 0 THEN -1 ELSE 1
         IN  <<s * (n \div g), s * (d \div g)>>

RatInt(n) == <<n, 1>>

Zero == RatInt(0)

\* a * b, cancelling across before multiplying
RatMul(a, b) ==
    IF IsNaN(a) \/ IsNaN(b) THEN NaN
    ELSE IF ~IsFinite(a) \/ ~IsFinite(b) THEN <<Sign(a[1]) * Sign(b[1]), 0>>
    ELSE LET g1 == GCD(Abs(a[1]), b[2])
             g2 == GCD(Abs(b[1]), a[2])
         IN  Rat((a[1] \div g1) * (b[1] \div g2), (a[2] \div g2) * (b[2] \div g1))

\* a / b
RatDiv(a, b) ==
    IF IsNaN(a) \/ IsNaN(b) THEN NaN
    ELSE IF ~IsFinite(b) THEN (IF IsFinite(a) THEN Zero ELSE NaN)
    ELSE IF b[1] = 0 THEN <<Sign(a[1]), 0>>
    ELSE RatMul(a, Rat(b[2], b[1]))

RatAdd(a, b) ==
    IF IsNaN(a) \/ IsNaN(b) THEN NaN
    ELSE IF ~IsFinite(a) \/ ~IsFinite(b)
         THEN (IF IsFinite(a) THEN b
               ELSE IF IsFinite(b) \/ a = b THEN a ELSE NaN)
    ELSE LET g == GCD(a[2], b[2])
         IN  Rat(a[1] * (b[2] \div g) + b[1] * (a[2] \div g), a[2] * (b[2] \div g))

\* a <= b, a < b on finite numbers
RatLE(a, b) == a[1] * b[2] <= b[1] * a[2]

RatLT(a, b) == a[1] * b[2] < b[1] * a[2]

\* <<floor(n * scale / d), the remainder>> for n >= 0, d > 0 and scale a power
\* of ten, by long division (one decimal digit at a time)
RECURSIVE ScaledDiv(_, _, _)
ScaledDiv(n, d, scale) ==
    IF scale = 1 THEN <<n \div d, n % d>>
    ELSE LET p == ScaledDiv(n, d, scale \div 10)
         IN  <<p[1] * 10 + ((p[2] * 10) \div d), (p[2] * 10) % d>>

\* parseFloat(x.toFixed(digits)) with scale = 10^digits: the nearest multiple
\* of 1/scale, halves away from zero; a non-finite number stays what it is
ToFixed(x, scale) ==
    IF ~IsFinite(x) THEN x
    ELSE LET p == ScaledDiv(Abs(x[1]), x[2], scale)
             q == p[1] + (IF 2 * p[2] >= x[2] THEN 1 ELSE 0)
         IN  Rat(Sign(x[1]) * q, scale)

\* toFixed(4), toFixed(2)
Scale4 == 10000
Scale2 == 100

\* Math.random() for the draw r
Random(r) == Rat(r, RandSteps)

-----------------------------------------------------------------------------
(* Dates: the Gregorian calendar as JavaScript's Date computes with it *)

monthNames == <<"Jan", "Feb", "Mar", "Apr", "May", "Jun",
                "Jul", "Aug", "Sep", "Oct", "Nov", "Dec">>

\* monthNames.indexOf(month): -1 when absent
IndexOf(month) ==
    IF \E i \in 1..12 : monthNames[i] = month
    THEN (CHOOSE i \in 1..12 : monthNames[i] = month) - 1
    ELSE -1

IsLeap(y) == (y % 4 = 0 /\ y % 100 # 0) \/ y % 400 = 0

DaysInMonth(y, m) ==
    IF m = 1 THEN (IF IsLeap(y) THEN 29 ELSE 28)
    ELSE IF m \in {3, 5, 8, 10} THEN 30 ELSE 31

\* days from 0000-01-01 to y-01-01
DaysBeforeYear(y) ==
    365 * y + ((y + 3) \div 4) - ((y + 99) \div 100) + ((y + 399) \div 400)

\* days from y-01-01 to the first day of month m (0 .. 11) of year y
DaysBeforeMonth(y, m) ==
    <<0, 31, 59, 90, 120, 151, 181, 212, 243, 273, 304, 334>>[m + 1]
        + (IF m >= 2 /\ IsLeap(y) THEN 1 ELSE 0)

\* new Date(year, monthIndex, day) at local midnight, as a day number; a
\* monthIndex or a day out of range carries over, as in JavaScript
MakeDay(y, m, d) ==
    LET yy == y + (m \div 12)
        mm == m % 12
    IN  DaysBeforeYear(yy) + DaysBeforeMonth(yy, mm) + d - 1

YearOf(day) ==
    CHOOSE y \in (day \div 366) .. (day \div 365) :
        DaysBeforeYear(y) <= day /\ day < DaysBeforeYear(y + 1)

MonthOf(day) ==
    LET y == YearOf(day)
    IN  CHOOSE m \in 0..11 :
            /\ MakeDay(y, m, 1) <= day
            /\ day < MakeDay(y, m, 1) + DaysInMonth(y, m)

\* the calendar of the years the model's dates fall in, computed once:
\* day number |-> <<year, month 0..11, day of the month>>
Calendar ==
    [day \in MakeDay(2023, 0, 1) .. MakeDay(2027, 11, 31) |->
        <<YearOf(day), MonthOf(day),
          day - MakeDay(YearOf(day), MonthOf(day), 1) + 1>>]

GetFullYear(day) == Calendar[day][1]

\* getMonth(): 0 .. 11
GetMonth(day) == Calendar[day][2]

\* getDate(): 1 .. 31
GetDate(day) == Calendar[day][3]

\* toLocaleString('default', { month: 'short' }) in an English locale
MonthShort(day) == monthNames[GetMonth(day) + 1]

\* date.toISOString().split('T')[0] of a Date at local midnight: the UTC
\* calendar date <<year, month 1..12, day>> of that instant.  East of UTC local
\* midnight is still the previous day in UTC.
ToISODate(day, offset) ==
    LET utc == IF offset > 0 THEN day - 1 ELSE day
    IN  <<GetFullYear(utc), GetMonth(utc) + 1, GetDate(utc)>>

\* a < b, a <= b on Dates <<day, ms>>
DateLT(a, b) == a[1] < b[1] \/ (a[1] = b[1] /\ a[2] < b[2])

DateLE(a, b) == a = b \/ DateLT(a, b)

-----------------------------------------------------------------------------
(* Dividend records and series *)

\* the flags a synthesized record may carry (a fetched record carries none)
Flags == {"estimated", "announced", "earlyAnnouncement", "updated"}

Record(month, year, dividend, yield, exDate, payDate, flags) ==
    [month |-> month, year |-> year, dividend |-> dividend, yield |-> yield,
     exDate |-> exDate, payDate |-> payDate, flags |-> flags]

\* array.slice(from, to) on a sequence, indices from 0
Slice(s, from, to) == SubSeq(s, from + 1, Min(to, Len(s)))

\* array.reduce((sum, item) => sum + item.dividend, 0)
RECURSIVE SumDividends(_)
SumDividends(s) ==
    IF s = <<>> THEN Zero
    ELSE RatAdd(SumDividends(SubSeq(s, 1, Len(s) - 1)), s[Len(s)].dividend)

\* !x for a number: 0 and NaN are falsy
Falsy(x) == IsNaN(x) \/ (IsFinite(x) /\ x[1] = 0)

\* Math.floor of a finite non-negative number
Floor(x) == x[1] \div x[2]

-----------------------------------------------------------------------------
(* financeService.js: the pure functions *)

calculateYield(dividendAmount, price) ==
    RatMul(RatDiv(dividendAmount, price), RatInt(100))

\* a slip: the annual factor taken from the whole series, not from the slice
calculateAnnualizedYield_WholeLength(divs, price) ==
    IF Len(divs) = 0 \/ Falsy(price) THEN Zero
    ELSE LET recentDividends == Slice(divs, 0, Min(12, Len(divs)))
             totalDividend == SumDividends(recentDividends)
             annualFactor == Rat(12, Len(divs))
             annualizedDividend == RatMul(totalDividend, annualFactor)
         IN  RatMul(RatDiv(annualizedDividend, price), RatInt(100))

calculateAnnualizedYield(divs, price) ==
    IF Len(divs) = 0 \/ Falsy(price) THEN Zero
    ELSE LET recentDividends == Slice(divs, 0, Min(12, Len(divs)))
             totalDividend == SumDividends(recentDividends)
             annualFactor == Rat(12, Len(recentDividends))
             annualizedDividend == RatMul(totalDividend, annualFactor)
         IN  RatMul(RatDiv(annualizedDividend, price), RatInt(100))

\* the weighted sum and the total weight the forEach accumulates
RECURSIVE WeightedSum(_, _)
WeightedSum(recent, n) ==
    IF n = 0 THEN Zero
    ELSE RatAdd(WeightedSum(recent, n - 1),
                RatMul(recent[n].dividend, RatInt(6 - (n - 1))))

RECURSIVE TotalWeight(_)
TotalWeight(n) == IF n = 0 THEN 0 ELSE TotalWeight(n - 1) + (6 - (n - 1))

\* a slip: the plain mean of the window, the weights forgotten
BaseExpectedDividend_Unweighted(historicalDividends) ==
    LET recentDividends == Slice(historicalDividends, 0, 6)
    IN  RatDiv(SumDividends(recentDividends), RatInt(Len(recentDividends)))

\* baseExpectedDividend: weightedSum / totalWeight over the first 6 records
BaseExpectedDividend(historicalDividends) ==
    LET recentDividends == Slice(historicalDividends, 0, 6)
        n == Len(recentDividends)
    IN  RatDiv(WeightedSum(recentDividends, n), RatInt(TotalWeight(n)))

\* a slip: the variation starting at 0.6
VariationFactor_FromSixTenths(r) ==
    RatAdd(Rat(6, 10), RatMul(Random(r), Rat(6, 10)))

\* 0.7 + Math.random() * 0.6
VariationFactor(r) == RatAdd(Rat(7, 10), RatMul(Random(r), Rat(6, 10)))

\* generateExpectedDividend with the draw r of Math.random()
generateExpectedDividend(historicalDividends, r) ==
    RatMul(BaseExpectedDividend(historicalDividends), VariationFactor(r))

\* 5 + Math.floor(Math.random() * 4)
ExDay(r) == 5 + Floor(RatMul(Random(r), RatInt(4)))

\* a slip: the "1 +" forgotten
PayOffset_FromZero(r) == Floor(RatMul(Random(r), RatInt(2)))

\* 1 + Math.floor(Math.random() * 2)
PayOffset(r) == 1 + Floor(RatMul(Random(r), RatInt(2)))

\* getExpectedPayoutDates with the draws rEx, rPay, in a zone at `offset`
getExpectedPayoutDates(year, monthIndex, rEx, rPay, offset) ==
    LET exDate == MakeDay(year, monthIndex, ExDay(rEx))
        payDate == MakeDay(GetFullYear(exDate), GetMonth(exDate),
                           GetDate(exDate) + PayOffset(rPay))
    IN  [exDate |-> ToISODate(exDate, offset),
         payDate |-> ToISODate(payDate, offset)]

isInAnnouncementPeriod(currentDate, month, year) ==
    LET monthIndex == IndexOf(month)
        expectedExDate == MakeDay(year, monthIndex, 6)
        announcementStart ==
            MakeDay(GetFullYear(expectedExDate), GetMonth(expectedExDate),
                    GetDate(expectedExDate) - 12)
        announcementEnd ==
            MakeDay(GetFullYear(expectedExDate), GetMonth(expectedExDate),
                    GetDate(expectedExDate) - 3)
    IN  IF monthIndex = -1 THEN FALSE
        ELSE /\ DateLE(<<announcementStart, 0>>, currentDate)
             /\ DateLE(currentDate, <<announcementEnd, 0>>)

\* a slip: the 15th taken for the expected payment date
shouldHavePaidDividend_AfterThe15th(currentDate, month, year) ==
    LET monthIndex == IndexOf(month)
    IN  IF monthIndex = -1 THEN FALSE
        ELSE DateLT(<<MakeDay(year, monthIndex, 15), 0>>, currentDate)

shouldHavePaidDividend(currentDate, month, year) ==
    LET monthIndex == IndexOf(month)
        expectedPayDate == MakeDay(year, monthIndex, 12)
    IN  IF monthIndex = -1 THEN FALSE
        ELSE DateLT(<<expectedPayDate, 0>>, currentDate)

\* div => div.month === month && div.year === year
IsFor(div, month, year) == div.month = month /\ div.year = year

\* a slip: only the oldest record is looked at
HasMonth_LastOnly(divs, month, year) ==
    divs # <<>> /\ IsFor(divs[Len(divs)], month, year)

\* a slip: only the newest record is looked at
HasMonth_FirstOnly(divs, month, year) ==
    divs # <<>> /\ IsFor(divs[1], month, year)

\* array.some(div => div.month === month && div.year === year)
HasMonth(divs, month, year) ==
    \E i \in 1..Len(divs) : IsFor(divs[i], month, year)

\* the record the service builds for (month, year) from the estimate and the
\* dates it has just computed
NewDividend(month, year, expectedDividend, price, dates, flags) ==
    Record(month, year, ToFixed(expectedDividend, Scale4),
           ToFixed(calculateYield(expectedDividend, price), Scale2),
           dates.exDate, dates.payDate, flags)

\* new Date(today) after setMonth(today.getMonth() + 1), as a day number
NextMonthOf(now) ==
    MakeDay(GetFullYear(now[1]), GetMonth(now[1]) + 1, GetDate(now[1]))

NoRecord == [add |-> FALSE]

AddRecord(month, year, monthIndex, flags) ==
    [add |-> TRUE, month |-> month, year |-> year,
     monthIndex |-> monthIndex, flags |-> flags]

\* which record, if any, checkForNewDividendData adds at the instant `now`:
\* its branches in the order of the code; rAnnounce and rEarly are the draws
\* of the two announcement gates
NewDividendDecision(currentDividends, now, rAnnounce, rEarly) ==
    LET currentMonth == MonthShort(now[1])
        currentYear == GetFullYear(now[1])
        hasCurrentMonth == HasMonth(currentDividends, currentMonth, currentYear)
        nextMonth == NextMonthOf(now)
        nextMonthName == MonthShort(nextMonth)
        nextYear == GetFullYear(nextMonth)
        hasNextMonth == HasMonth(currentDividends, nextMonthName, nextYear)
    IN  IF ~hasCurrentMonth /\ shouldHavePaidDividend(now, currentMonth, currentYear)
        THEN AddRecord(currentMonth, currentYear, GetMonth(now[1]), {"estimated"})
        ELSE IF /\ ~hasCurrentMonth
                /\ isInAnnouncementPeriod(now, currentMonth, currentYear)
                /\ RatLT(Random(rAnnounce), Rat(3, 10))
        THEN AddRecord(currentMonth, currentYear, GetMonth(now[1]), {"announced"})
        ELSE IF /\ ~hasNextMonth
                /\ GetDate(now[1]) >= 25
                /\ isInAnnouncementPeriod(now, nextMonthName, nextYear)
                /\ RatLT(Random(rEarly), Rat(25, 100))
        THEN AddRecord(nextMonthName, nextYear, GetMonth(nextMonth),
                       {"announced", "earlyAnnouncement"})
        ELSE NoRecord

Draws == 0..(RandSteps - 1)

\* a slip: the new record pushed at the end of the series
checkForNewDividendData_PushedLast(currentDividends, price, now, offset) ==
    LET decisions ==
            {NewDividendDecision(currentDividends, now, rAnnounce, rEarly) :
                rAnnounce \in Draws, rEarly \in Draws}
        Added(d) ==
            {currentDividends \o
                <<NewDividend(d.month, d.year,
                              generateExpectedDividend(currentDividends, rAmt),
                              price, dates, d.flags)>> :
                rAmt \in Draws,
                dates \in {getExpectedPayoutDates(d.year, d.monthIndex,
                                                  rEx, rPay, offset) :
                              rEx \in Draws, rPay \in Draws}}
    IN  UNION {IF d.add THEN Added(d) ELSE {currentDividends} : d \in decisions}

\* the series checkForNewDividendData can return at the instant `now` in a
\* zone at `offset`, over every draw of Math.random()
checkForNewDividendData(currentDividends, price, now, offset) ==
    LET decisions ==
            {NewDividendDecision(currentDividends, now, rAnnounce, rEarly) :
                rAnnounce \in Draws, rEarly \in Draws}
        Added(d) ==
            {<<NewDividend(d.month, d.year,
                           generateExpectedDividend(currentDividends, rAmt),
                           price, dates, d.flags)>> \o currentDividends :
                rAmt \in Draws,
                dates \in {getExpectedPayoutDates(d.year, d.monthIndex,
                                                  rEx, rPay, offset) :
                              rEx \in Draws, rPay \in Draws}}
    IN  UNION {IF d.add THEN Added(d) ELSE {currentDividends} : d \in decisions}

\* a slip: the filter dropped
WithoutMonth_Unfiltered(divs, month, year) == divs

\* currentDividends.filter(div => !(div.month === month && div.year === year))
WithoutMonth(divs, month, year) ==
    LET Keep(div) == ~IsFor(div, month, year)
    IN  SelectSeq(divs, Keep)

\* the series forceUpdateCurrentMonth can return at the instant `now`
forceUpdateCurrentMonth(currentDividends, price, now, offset) ==
    LET currentMonth == MonthShort(now[1])
        currentYear == GetFullYear(now[1])
        filteredDividends == WithoutMonth(currentDividends, currentMonth, currentYear)
    IN  {<<NewDividend(currentMonth, currentYear,
                       generateExpectedDividend(filteredDividends, rAmt),
                       price, dates, {"updated"})>> \o filteredDividends :
            rAmt \in Draws,
            dates \in {getExpectedPayoutDates(currentYear, GetMonth(now[1]),
                                              rEx, rPay, offset) :
                          rEx \in Draws, rPay \in Draws}}

\* the static table fetchDividendHistory falls back to, newest first
Confirmed(month, year, amount, yield, exDate, payDate) ==
    Record(month, year, Rat(amount, Scale4), Rat(yield, Scale2), exDate, payDate, {})

baseDividends ==
    << Confirmed("Jun", 2025, 18967,  755, <<2025,  6,  6>>, <<2025,  6,  9>>),
       Confirmed("May", 2025, 23734,  945, <<2025,  5,  8>>, <<2025,  5,  9>>),
       Confirmed("Apr", 2025, 13356,  532, <<2025,  4, 10>>, <<2025,  4, 11>>),
       Confirmed("Mar", 2025, 13775,  548, <<2025,  3, 13>>, <<2025,  3, 14>>),
       Confirmed("Feb", 2025, 20216,  805, <<2025,  2, 13>>, <<2025,  2, 14>>),
       Confirmed("Jan", 2025, 22792,  907, <<2025,  1, 16>>, <<2025,  1, 17>>),
       Confirmed("Dec", 2024, 30821, 1227, <<2024, 12, 19>>, <<2024, 12, 20>>),
       Confirmed("Nov", 2024, 44213, 1760, <<2024, 11, 21>>, <<2024, 11, 22>>),
       Confirmed("Oct", 2024, 41981, 1671, <<2024, 10, 24>>, <<2024, 10, 25>>),
       Confirmed("Sep", 2024, 18541,  738, <<2024,  9,  6>>, <<2024,  9,  9>>),
       Confirmed("Aug", 2024, 19405,  772, <<2024,  8,  7>>, <<2024,  8,  8>>),
       Confirmed("Jul", 2024, 23320,  928, <<2024,  7,  5>>, <<2024,  7,  8>>),
       Confirmed("Jun", 2024, 30300, 1206, <<2024,  6,  6>>, <<2024,  6,  7>>),
       Confirmed("May", 2024, 25239, 1005, <<2024,  5,  6>>, <<2024,  5,  8>>),
       Confirmed("Apr", 2024, 41286, 1644, <<2024,  4,  4>>, <<2024,  4,  8>>) >>

-----------------------------------------------------------------------------
(* MSTYDividendDashboard.js: the component *)

Null == [isNull |-> TRUE]

EmptyText == <<>>

\* a price snapshot; fallback marks the static snapshot's "(Fallback data)"
PriceSnapshot(price, previousClose, isFallback) ==
    [currentPrice |-> price, previousClose |-> previousClose,
     change |-> RatAdd(price, RatMul(RatInt(-1), previousClose)),
     percentChange |->
        RatMul(RatDiv(RatAdd(price, RatMul(RatInt(-1), previousClose)),
                      previousClose), RatInt(100)),
     fallback |-> isFallback]

\* the snapshot fetchRealTimePrice returns when both providers fail
FallbackPrice ==
    [currentPrice |-> Rat(2512, 100), previousClose |-> Rat(2470, 100),
     change |-> Rat(42, 100), percentChange |-> Rat(170, 100), fallback |-> TRUE]

\* what an endpoint answers: fetch() rejects ("down"), or resolves with
\* response.ok false ("notOk") or true ("ok"); the body is what
\* response.json() makes of it
Answer(status, body) == [status |-> status, body |-> body]

NoBody == [kind |-> "none"]

\* fetch() rejects
Down == Answer("down", NoBody)

NotOk == Answer("notOk", NoBody)

\* response.json() rejects
Unparsable == Answer("ok", [kind |-> "unparsable"])

\* a JSON object with none of the fields the code reads
EmptyObject == Answer("ok", [kind |-> "empty"])

\* Finnhub: {c, pc, ...}, or {error}
FinnhubQuote(c, pc) == Answer("ok", [kind |-> "quote", c |-> c, pc |-> pc])

FinnhubError == Answer("ok", [kind |-> "error"])

\* Polygon: {results: [{c, o, ...}, ...]}
PolygonResults(results) == Answer("ok", [kind |-> "results", results |-> results])

\* the proxy: {dividends: [...]}
ProxyDividends(records) == Answer("ok", [kind |-> "dividends", dividends |-> records])

\* JavaScript values a fetch resolves with that are not snapshots
ArrayOf(items) == [type |-> "array", items |-> items]

Undefined == [type |-> "undefined"]

\* what a call resolved with, and the endpoints it requested
Resolved(value, requested) == [value |-> value, requested |-> requested]

\* fetchRealTimePrice: a field the body lacks reads undefined, which the
\* arithmetic and the tests of the code treat as NaN
fetchRealTimePrice(network) ==
    LET data == network.finnhub.body
        backupData == network.polygon.body
    IN  IF network.finnhub.status = "ok" /\ data.kind = "quote"
        THEN Resolved(PriceSnapshot(data.c, data.pc, FALSE), <<"finnhub">>)
        ELSE IF network.finnhub.status = "ok" /\ data.kind = "empty"
        THEN Resolved(PriceSnapshot(NaN, NaN, FALSE), <<"finnhub">>)
        ELSE IF /\ network.polygon.status = "ok"
                /\ backupData.kind = "results"
                /\ backupData.results # <<>>
        THEN Resolved(PriceSnapshot(backupData.results[1].c,
                                    backupData.results[1].o, FALSE),
                      <<"finnhub", "polygon">>)
        ELSE Resolved(FallbackPrice, <<"finnhub", "polygon">>)


\* fetchDividendHistory: data.dividends of the body, or the static table
\* when the request fails
fetchDividendHistory(network) ==
    LET data == network.proxy.body
    IN  IF network.proxy.status = "ok" /\ data.kind = "dividends"
        THEN Resolved(ArrayOf(data.dividends), <<"proxy">>)
        ELSE IF network.proxy.status = "ok" /\ data.kind = "empty"
        THEN Resolved(Undefined, <<"proxy">>)
        ELSE Resolved(ArrayOf(baseDividends), <<"proxy">>)

\* a loadData run at its first await: fetchRealTimePrice called, the
\* constants price and dividends not yet bound, no answer received
Started(id) ==
    [id |-> id, stage |-> "price", price |-> Null, dividends |-> Null,
     requested |-> <<>>]

\* the lowest number no run in flight goes by
FreeId(inFlight) ==
    CHOOSE id \in 1..(Len(inFlight) + 1) :
        \A i \in 1..Len(inFlight) : inFlight[i].id # id

\* no endpoint can be reached, none has been requested
Offline ==
    /\ net = [finnhub |-> Down, polygon |-> Down, proxy |-> Down]
    /\ requests = <<>>

\* the state the useState calls construct, the mount effect run: loadData
\* started and the timer set
Constructed ==
    /\ priceData = [currentPrice |-> Zero, previousClose |-> Zero,
                    change |-> Zero, percentChange |-> Zero, fallback |-> FALSE]
    /\ dividendHistory = <<>>
    /\ averageMonthlyDividend = Zero
    /\ annualYield = Zero
    /\ loading = TRUE
    /\ error = ""
    /\ refreshCounter = 0
    /\ investmentAmount = RatInt(10000)
    /\ customDividendAmount = EmptyText
    /\ useCustomDividend = FALSE
    /\ scenarioName = ""
    /\ calculatedResults = Null
    /\ events = <<>>
    /\ mounted = TRUE
    /\ timerOn = TRUE
    /\ inflight = 1
    /\ runs = <<Started(1)>>

\* months[monthName] || 0
getMonthNumber(monthName) ==
    IF IndexOf(monthName) = -1 THEN 0 ELSE IndexOf(monthName)

\* new Date(year, monthNumber) as a count of months: the order of the dates
MonthStamp(div) == div.year * 12 + getMonthNumber(div.month)

\* one record put into a series sorted newest first, after the records of its
\* own month that are already there (Array.prototype.sort is stable)
RECURSIVE InsertNewestFirst(_, _)
InsertNewestFirst(div, sorted) ==
    IF sorted = <<>> THEN <<div>>
    ELSE IF MonthStamp(div) > MonthStamp(Head(sorted))
         THEN <<div>> \o sorted
         ELSE <<Head(sorted)>> \o InsertNewestFirst(div, Tail(sorted))

\* dividends.sort((a, b) => new Date(b...) - new Date(a...)): newest first
RECURSIVE SortNewestFirst(_)
SortNewestFirst(divs) ==
    IF divs = <<>> THEN <<>>
    ELSE InsertNewestFirst(divs[Len(divs)],
                           SortNewestFirst(SubSeq(divs, 1, Len(divs) - 1)))

\* loadData: totalDividends / dividends.length
AverageDividend(divs) == RatDiv(SumDividends(divs), RatInt(Len(divs)))

\* useCustomDividend && customDividendAmount: a non-empty text is truthy
CustomActive(useCustom, customAmount) == useCustom /\ customAmount # EmptyText

\* a slip: whole shares only
SharesOwned_Whole(amount, price) == RatInt(Floor(RatDiv(amount, price)))

\* amount / priceData.currentPrice
SharesOwned(amount, price) == RatDiv(amount, price)

\* a slip: the custom amount never used
EffectiveDividendAmount_AlwaysAverage(useCustom, customAmount, average) == average

EffectiveDividendAmount(useCustom, customAmount, average) ==
    IF CustomActive(useCustom, customAmount) THEN customAmount ELSE average

\* `${month} ${year}`
Label(month, year) == <<month, year>>

\* calculateReturns(amount) as the component evaluates it in the state given
calculateReturns(amount, price, average, history, useCustom, customAmount, name, now) ==
    IF Falsy(price) THEN Null
    ELSE
    LET sharesOwned == SharesOwned(amount, price)
        effectiveDividendAmount ==
            EffectiveDividendAmount(useCustom, customAmount, average)
        expectedMonthlyDividend == RatMul(effectiveDividendAmount, sharesOwned)
        expectedAnnualDividend == RatMul(expectedMonthlyDividend, RatInt(12))
        effectiveAnnualYield ==
            RatMul(RatDiv(RatMul(effectiveDividendAmount, RatInt(12)), price),
                   RatInt(100))
        lastYearDividends == Slice(history, 0, Min(12, Len(history)))
        historicalReturn == RatMul(SumDividends(lastYearDividends), sharesOwned)
        monthlyReturns ==
            [i \in 1..Len(history) |->
                [label |-> Label(history[i].month, history[i].year),
                 dividend |-> history[i].dividend,
                 return |-> ToFixed(RatMul(history[i].dividend, sharesOwned),
                                    Scale2)]]
        projectedReturns ==
            IF CustomActive(useCustom, customAmount)
            THEN [k \in 1..12 |->
                    LET futureDate == MakeDay(GetFullYear(now[1]),
                                              GetMonth(now[1]) + (k - 1),
                                              GetDate(now[1]))
                    IN  [label |-> Label(MonthShort(futureDate),
                                         GetFullYear(futureDate)),
                         dividend |-> customAmount,
                         return |-> ToFixed(RatMul(customAmount, sharesOwned),
                                            Scale2),
                         isProjected |-> TRUE]]
            ELSE <<>>
    IN  [sharesOwned |-> ToFixed(sharesOwned, Scale2),
         expectedMonthlyDividend |-> ToFixed(expectedMonthlyDividend, Scale2),
         expectedAnnualDividend |-> ToFixed(expectedAnnualDividend, Scale2),
         expectedAnnualYieldPercentage |-> ToFixed(effectiveAnnualYield, Scale2),
         historicalReturn |-> ToFixed(historicalReturn, Scale2),
         monthlyReturns |-> monthlyReturns,
         projectedReturns |-> projectedReturns,
         isCustomScenario |-> CustomActive(useCustom, customAmount),
         scenarioName |-> IF name # "" THEN name
                          ELSE IF useCustom THEN "Custom Scenario"
                          ELSE "Historical Average"]

\* Math.max(...amounts), Math.min(...amounts) of finite amounts; of no
\* amounts, -Infinity and Infinity
RECURSIVE MaxDividend(_)
MaxDividend(s) ==
    IF s = <<>> THEN <<-1, 0>>
    ELSE LET m == MaxDividend(Tail(s))
         IN  IF ~IsFinite(m) \/ RatLT(m, Head(s).dividend)
             THEN Head(s).dividend ELSE m

RECURSIVE MinDividend(_)
MinDividend(s) ==
    IF s = <<>> THEN Infinity
    ELSE LET m == MinDividend(Tail(s))
         IN  IF ~IsFinite(m) \/ RatLT(Head(s).dividend, m)
             THEN Head(s).dividend ELSE m

Scenario(customAmount, name, useCustom) ==
    [customDividendAmount |-> customAmount, scenarioName |-> name,
     useCustomDividend |-> useCustom]

\* a slip: reset leaves the amount in the input
ResetScenario_KeepsAmount == Scenario(customDividendAmount, "", FALSE)

\* applyPresetScenario('reset')
ResetScenario == Scenario(EmptyText, "", FALSE)

PresetTypes == {"bullish", "bearish", "highest", "lowest", "reset"}

\* a slip: the highest and the lowest amount taken for one another
applyPresetScenario_PeakAndTroughSwapped(type, average, history) ==
    CASE type = "bullish" ->
            Scenario(ToFixed(RatMul(average, Rat(15, 10)), Scale4),
                     "Bullish Scenario (+50%)", TRUE)
      [] type = "bearish" ->
            Scenario(ToFixed(RatMul(average, Rat(5, 10)), Scale4),
                     "Bearish Scenario (-50%)", TRUE)
      [] type = "highest" ->
            Scenario(ToFixed(MinDividend(history), Scale4),
                     "Peak Performance", TRUE)
      [] type = "lowest" ->
            Scenario(ToFixed(MaxDividend(history), Scale4),
                     "Minimum Performance", TRUE)
      [] type = "reset" -> ResetScenario

\* applyPresetScenario(type): the three values it sets
applyPresetScenario(type, average, history) ==
    CASE type = "bullish" ->
            Scenario(ToFixed(RatMul(average, Rat(15, 10)), Scale4),
                     "Bullish Scenario (+50%)", TRUE)
      [] type = "bearish" ->
            Scenario(ToFixed(RatMul(average, Rat(5, 10)), Scale4),
                     "Bearish Scenario (-50%)", TRUE)
      [] type = "highest" ->
            Scenario(ToFixed(MaxDividend(history), Scale4),
                     "Peak Performance", TRUE)
      [] type = "lowest" ->
            Scenario(ToFixed(MinDividend(history), Scale4),
                     "Minimum Performance", TRUE)
      [] type = "reset" -> ResetScenario

-----------------------------------------------------------------------------
(* Inputs shared by the specifications of the service functions *)

\* the newest month of the static table: June 2025
NewestYear == baseDividends[1].year
NewestMonth == IndexOf(baseDividends[1].month)

\* a fetched (confirmed) series, newest first, with the given amounts: record i
\* is for the month i-1 months before June 2025
MkSeries(amounts) ==
    [i \in 1..Len(amounts) |->
        LET first == MakeDay(NewestYear, NewestMonth - (i - 1), 1)
        IN  Record(MonthShort(first), GetFullYear(first), amounts[i],
                   ToFixed(calculateYield(amounts[i], Rat(2512, 100)), Scale2),
                   ToISODate(first + 5, 0), ToISODate(first + 6, 0), {})]

\* no service call made yet
Idle == [op |-> "none"]

Called(op, value) == [op |-> op, value |-> value]

-----------------------------------------------------------------------------
(* SpecYield: calculateAnnualizedYield applied to a series and a price *)

\* the series of length n whose record at index j (from 0) has one amount and
\* every other record another: j tells the positions of the series apart
YieldSeries(n, j) ==
    MkSeries([i \in 1..n |-> IF i = j + 1 THEN Rat(23734, 10000)
                                          ELSE Rat(18967, 10000)])

YieldPrices == {Rat(2512, 100), Zero, Rat(-2512, 100)}

InitYield ==
    /\ dividends \in {YieldSeries(n, j) : n \in 0..MaxYieldLen, j \in 0..MaxYieldLen}
    /\ currentPrice \in YieldPrices
    /\ today = <<MakeDay(NewestYear, NewestMonth, 15), 0>>
    /\ tz = 0
    /\ input = dividends
    /\ out = Idle
    /\ Constructed
    /\ Offline

CallAnnualizedYield ==
    /\ out.op = "none"
    /\ out' = Called("calculateAnnualizedYield",
                     calculateAnnualizedYield(dividends, currentPrice))
    /\ UNCHANGED <<dividends, svcArgs, uiVars>>

NextYield == CallAnnualizedYield

SpecYield == InitYield /\ [][NextYield]_vars

\* the amounts of the first k records, added from the oldest of them up
RECURSIVE SumOfFirst(_, _)
SumOfFirst(s, k) ==
    IF k = 0 THEN Zero ELSE RatAdd(s[1].dividend, SumOfFirst(Tail(s), k - 1))

\* C3: for a non-empty series and a price > 0 the annualized yield is
\* (sum of the first min(12, count) amounts) * (12 / min(12, count)) / price * 100
C3_AnnualizedYieldFormula ==
    (/\ out.op = "calculateAnnualizedYield"
     /\ Len(dividends) > 0
     /\ RatLT(Zero, currentPrice))
    => LET count == Min(12, Len(dividends))
       IN  RatMul(RatMul(out.value, currentPrice), RatInt(count))
             = RatMul(SumOfFirst(dividends, count), RatInt(12 * 100))

C3_Witness ==
    /\ out.op = "calculateAnnualizedYield"
    /\ Len(dividends) > 12
    /\ RatLT(Zero, currentPrice)
    /\ RatLT(Zero, out.value)
    /\ dividends[13].dividend # dividends[1].dividend

\* C4 as claimed: 0 for an empty series and for every price <= 0
C4_ZeroForNonPositivePrice ==
    (/\ out.op = "calculateAnnualizedYield"
     /\ (Len(dividends) = 0 \/ RatLE(currentPrice, Zero)))
    => out.value = Zero

-----------------------------------------------------------------------------
(* SpecEstimate: generateExpectedDividend applied to a series *)

Dollars(n) == RatInt(n)

\* the series of the worked example: the six most recent amounts, newest first
ExampleAmounts ==
    <<Dollars(60), Dollars(50), Dollars(40), Dollars(30), Dollars(20), Dollars(10)>>

EstimateAmounts == {Dollars(0), Dollars(60)}

SeqsUpTo(S, n) == UNION {[1..k -> S] : k \in 0..n}

\* series of every length up to MaxEstimateLen (longer than the window of 6),
\* and the example followed by up to two older records
EstimateInputs ==
    {MkSeries(a) : a \in SeqsUpTo(EstimateAmounts, MaxEstimateLen)}
        \cup {MkSeries(ExampleAmounts \o a) : a \in SeqsUpTo(EstimateAmounts, 2)}

InitEstimate ==
    /\ dividends \in EstimateInputs
    /\ currentPrice = Rat(2512, 100)
    /\ today = <<MakeDay(NewestYear, NewestMonth + 1, 15), 0>>
    /\ tz = 0
    /\ input = dividends
    /\ out = Idle
    /\ Constructed
    /\ Offline

CallGenerateExpectedDividend ==
    /\ out.op = "none"
    /\ \E r \in 0..(RandSteps - 1) :
          out' = Called("generateExpectedDividend",
                        generateExpectedDividend(dividends, r))
    /\ UNCHANGED <<dividends, svcArgs, uiVars>>

NextEstimate == CallGenerateExpectedDividend

SpecEstimate == InitEstimate /\ [][NextEstimate]_vars

IsExample(s) == Len(s) >= 6 /\ [i \in 1..6 |-> s[i].dividend] = ExampleAmounts

\* C5 as claimed: for the amounts 60, 50, 40, 30, 20, 10 (newest first) the
\* unjittered base is 700/21 and every estimate lies in [23.33, 43.33]
C5_ExampleBaseIs700Over21 ==
    (IsExample(dividends) /\ out.op = "generateExpectedDividend")
    => /\ BaseExpectedDividend(dividends) = Rat(700, 21)
       /\ RatLE(Rat(2333, 100), ToFixed(out.value, Scale2))
       /\ RatLE(ToFixed(out.value, Scale2), Rat(4333, 100))

\* C5, amended: for those amounts the unjittered base is 910/21 (43.33 to two
\* decimals) and every estimate, to two decimals, lies in [30.33, 56.33]
C5_ExampleBaseAndRange ==
    (IsExample(dividends) /\ out.op = "generateExpectedDividend")
    => /\ BaseExpectedDividend(dividends) = Rat(910, 21)
       /\ ToFixed(BaseExpectedDividend(dividends), Scale2) = Rat(4333, 100)
       /\ RatLE(Rat(3033, 100), ToFixed(out.value, Scale2))
       /\ RatLE(ToFixed(out.value, Scale2), Rat(5633, 100))

C5_Witness ==
    /\ IsExample(dividends)
    /\ Len(dividends) > 6
    /\ out.op = "generateExpectedDividend"
    /\ out.value = Rat(91, 3)     \* the lowest draw: 0.7 * 910/21

\* the weighted average of the window: the first min(6, n) amounts, the i-th
\* (from 0) weighted 6 - i
RECURSIVE WindowSum(_, _, _)
WindowSum(s, i, k) ==
    IF i >= k THEN Zero
    ELSE RatAdd(RatMul(s[i + 1].dividend, RatInt(6 - i)), WindowSum(s, i + 1, k))

RECURSIVE WindowWeight(_, _)
WindowWeight(i, k) == IF i >= k THEN 0 ELSE (6 - i) + WindowWeight(i + 1, k)

WindowAverage(s) ==
    LET k == Min(6, Len(s))
    IN  RatDiv(WindowSum(s, 0, k), RatInt(WindowWeight(0, k)))

\* C6: for a non-empty series of non-negative amounts every estimate lies in
\* [0.7 * base, 1.3 * base], base the weighted average of the window
C6_EstimateWithinThirtyPercent ==
    (/\ out.op = "generateExpectedDividend"
     /\ Len(dividends) > 0
     /\ \A i \in 1..Len(dividends) : RatLE(Zero, dividends[i].dividend))
    => /\ RatLE(RatMul(Rat(7, 10), WindowAverage(dividends)), out.value)
       /\ RatLE(out.value, RatMul(Rat(13, 10), WindowAverage(dividends)))

C6_Witness ==
    /\ out.op = "generateExpectedDividend"
    /\ Len(dividends) = 2
    /\ RatLT(Zero, out.value)
    /\ RatLT(WindowAverage(dividends), out.value)

\* the weighted average of the window with the weights counted from the
\* window's size: the first k = min(6, n) amounts, the i-th (from 0) weighted
\* k - i
RECURSIVE RelativeSum(_, _, _)
RelativeSum(s, i, k) ==
    IF i >= k THEN Zero
    ELSE RatAdd(RatMul(s[i + 1].dividend, RatInt(k - i)), RelativeSum(s, i + 1, k))

RECURSIVE RelativeWeight(_, _)
RelativeWeight(i, k) == IF i >= k THEN 0 ELSE (k - i) + RelativeWeight(i + 1, k)

RelativeAverage(s) ==
    LET k == Min(6, Len(s))
    IN  RatDiv(RelativeSum(s, 0, k), RatInt(RelativeWeight(0, k)))

\* C22 as claimed: for a non-empty series every estimate is the weighted
\* average of the k = min(6, n) most recent amounts, the i-th weighted k - i,
\* times the variation of one draw; records beyond the 6th play no part
C22_WeightsRelativeToWindow ==
    (out.op = "generateExpectedDividend" /\ Len(dividends) > 0)
    => \E r \in Draws :
          out.value = RatMul(RelativeAverage(dividends), VariationFactor(r))

-----------------------------------------------------------------------------
(* SpecDates: getExpectedPayoutDates for a target month, in a time zone *)

\* minutes east of UTC: New York, UTC, Berlin, Tokyo
TZOffsets == {-300, 0, 60, 540}

TargetYears == (NewestYear - 1)..(NewestYear + 1)

InitDates ==
    /\ dividends = <<>>
    /\ currentPrice = Rat(2512, 100)
    /\ today \in {<<MakeDay(y, m, 1), 0>> : y \in TargetYears, m \in 0..11}
    /\ tz \in TZOffsets
    /\ input = dividends
    /\ out = Idle
    /\ Constructed
    /\ Offline

\* the call the service makes: getExpectedPayoutDates(currentYear, today.getMonth())
CallGetExpectedPayoutDates ==
    /\ out.op = "none"
    /\ \E rEx \in 0..(RandSteps - 1), rPay \in 0..(RandSteps - 1) :
          out' = Called("getExpectedPayoutDates",
                        getExpectedPayoutDates(GetFullYear(today[1]),
                                               GetMonth(today[1]), rEx, rPay, tz))
    /\ UNCHANGED <<dividends, svcArgs, uiVars>>

NextDates == CallGetExpectedPayoutDates

SpecDates == InitDates /\ [][NextDates]_vars

\* the day number of the calendar date <<year, month 1..12, day>>
DayOfISO(date) == MakeDay(date[1], date[2] - 1, date[3])

C8_ExDayFiveToEightInEveryZone ==
    out.op = "getExpectedPayoutDates"
    => /\ out.value.exDate[3] \in 5..8
       /\ out.value.exDate[1] = GetFullYear(today[1])
       /\ out.value.exDate[2] = GetMonth(today[1]) + 1
       /\ out.value.payDate[1] = GetFullYear(today[1])
       /\ out.value.payDate[2] = GetMonth(today[1]) + 1

-----------------------------------------------------------------------------
(* SpecReconcile: checkForNewDividendData applied, again and again at one  *)
(* instant, to the series it returned.  SpecForceUpdate: the same for       *)
(* forceUpdateCurrentMonth.                                                 *)

\* the months "today" is drawn from: around the newest fetched month, and
\* the turn of the year
TodayMonths ==
    {<<NewestYear, NewestMonth - 1>>, <<NewestYear, NewestMonth>>,
     <<NewestYear, 11>>, <<NewestYear + 1, 0>>}

\* the days of the month around which the date tests change
TodayDays == {1, 3, 4, 12, 13, 24, 25, 31}

Instants ==
    {<<MakeDay(ym[1], ym[2], d), t>> :
        ym \in TodayMonths, d \in TodayDays, t \in 0..MaxTimeOfDay}

\* the first records of the static table, up to MaxSeriesLen of them, and
\* the same with every record twice (a series that breaks the rule of one
\* record per month)
SeriesInputs ==
    LET clean == {SubSeq(baseDividends, 1, k) : k \in 0..MaxSeriesLen}
    IN  clean \cup {s \o s : s \in clean}

InitService ==
    /\ dividends \in SeriesInputs
    /\ currentPrice = Rat(2512, 100)
    /\ today \in {i \in Instants : GetDate(i[1]) \in TodayDays}
    /\ tz = 60
    /\ input = dividends
    /\ out = Idle
    /\ Constructed
    /\ Offline

Reconcile ==
    \E result \in checkForNewDividendData(dividends, currentPrice, today, tz) :
        /\ dividends' = result
        /\ out' = Called("checkForNewDividendData", Len(result) - Len(dividends))
        /\ UNCHANGED <<svcArgs, uiVars>>

NextReconcile == Reconcile

SpecReconcile == InitService /\ [][NextReconcile]_vars

ForceUpdate ==
    /\ out.op = "none"
    /\ \E result \in forceUpdateCurrentMonth(dividends, currentPrice, today, tz) :
          /\ dividends' = result
          /\ out' = Called("forceUpdateCurrentMonth", Len(result) - Len(dividends))
          /\ UNCHANGED <<svcArgs, uiVars>>

NextForceUpdate == ForceUpdate

SpecForceUpdate == InitService /\ [][NextForceUpdate]_vars

\* at most one record per (month, year)
UniqueMonths(s) ==
    \A i, j \in 1..Len(s) :
        (s[i].month = s[j].month /\ s[i].year = s[j].year) => i = j

\* C1: from a series with at most one record per (month, year), reconcile
\* applied to its own output at the same instant never yields two records
\* for one (month, year)
C1_ReconcileKeepsMonthsUnique ==
    UniqueMonths(input) => UniqueMonths(dividends)

\* reconcile has run on its own output: both records in front are its own
C1_Witness ==
    /\ UniqueMonths(input)
    /\ Len(dividends) = Len(input) + 2
    /\ dividends[1].flags = {"announced", "earlyAnnouncement"}
    /\ dividends[2].flags = {"estimated"}

ThisMonth(div) == IsFor(div, MonthShort(today[1]), GetFullYear(today[1]))

OtherMonth(div) == ~ThisMonth(div)

\* C2: whatever number of current-month records the input held, the series
\* forceUpdateCurrentMonth returns holds exactly one, flagged updated, in
\* front, followed by the records of the other months
C2_ForceUpdateLeavesOneCurrentRecord ==
    out.op = "forceUpdateCurrentMonth"
    => /\ Len(SelectSeq(dividends, ThisMonth)) = 1
       /\ ThisMonth(dividends[1])
       /\ "updated" \in dividends[1].flags
       /\ Tail(dividends) = SelectSeq(input, OtherMonth)

C2_Witness ==
    /\ out.op = "forceUpdateCurrentMonth"
    /\ Len(SelectSeq(input, ThisMonth)) = 2
    /\ Len(SelectSeq(input, OtherMonth)) = 2
    /\ Len(SelectSeq(dividends, ThisMonth)) = 1

\* the last call added a record
Added == out.op # "none" /\ out.value = 1

\* C12 as claimed: for every non-empty input the record forceUpdateCurrentMonth
\* puts in front has a number >= 0 for its amount
C12_ForceUpdateAmountIsANumber ==
    (out.op = "forceUpdateCurrentMonth" /\ input # <<>>)
    => /\ IsFinite(dividends[1].dividend)
       /\ RatLE(Zero, dividends[1].dividend)

C17_NoEstimateOnTheTwelfth ==
    (Added /\ "estimated" \in dividends[1].flags) => GetDate(today[1]) > 12

\* the calendar days from 12 to 3 days before the 6th of month m (0 .. 11,
\* or 12 for January of the year after) of year y
WindowDays(y, m) == (MakeDay(y, m, 6) - 12) .. (MakeDay(y, m, 6) - 3)

\* C18 as claimed: the announcement test for the current month and for the
\* month after is true exactly on the calendar days from 12 to 3 days before
\* the 6th of that month, at any time of day
C18_WindowInclusiveAtAnyTime ==
    \A ahead \in {0, 1} :
        LET target == MakeDay(GetFullYear(today[1]), GetMonth(today[1]) + ahead, 1)
        IN  isInAnnouncementPeriod(today, MonthShort(target), GetFullYear(target))
            <=> today[1] \in WindowDays(GetFullYear(target), GetMonth(target))

\* the first day of the calendar month after today's
FollowingMonth == MakeDay(GetFullYear(today[1]), GetMonth(today[1]) + 1, 1)

InFollowingMonth(div) ==
    /\ div.month = monthNames[GetMonth(FollowingMonth) + 1]
    /\ div.year = GetFullYear(FollowingMonth)

\* C19: a record reconcile adds for another month than the current one, or
\* with the earlyAnnouncement marker, is added on a day >= 25, is for the
\* calendar month after today's, which had no record, is flagged announced
\* and earlyAnnouncement, and is in front
C19_NextMonthOnlyFromThe25th ==
    (Added /\ (OtherMonth(dividends[1])
                \/ "earlyAnnouncement" \in dividends[1].flags))
    => /\ GetDate(today[1]) >= 25
       /\ InFollowingMonth(dividends[1])
       /\ SelectSeq(Tail(dividends), InFollowingMonth) = <<>>
       /\ dividends[1].flags = {"announced", "earlyAnnouncement"}

\* in December reconcile announced January of the year after
C19_Witness ==
    /\ Added
    /\ GetMonth(today[1]) = 11
    /\ dividends[1].month = "Jan"
    /\ dividends[1].year = GetFullYear(today[1]) + 1
    /\ "earlyAnnouncement" \in dividends[1].flags

\* newest first by (year, month)
NewestFirst(s) ==
    \A i \in 1..(Len(s) - 1) :
        s[i].year * 12 + IndexOf(s[i].month)
            >= s[i + 1].year * 12 + IndexOf(s[i + 1].month)

\* C20 as claimed: from a series ordered newest first, the series
\* forceUpdateCurrentMonth returns is ordered newest first
C20_StaysNewestFirst ==
    (out.op = "forceUpdateCurrentMonth" /\ NewestFirst(input))
    => NewestFirst(dividends)


\* C21: a reconcile step returns the series it was given, or that series with
\* exactly one new record in front: the records it was given are kept as
\* they were, in their order, also when the current month and the month
\* after are both missing
C21_AtMostOneRecordInFront ==
    [][\/ dividends' = dividends
       \/ /\ Len(dividends') = Len(dividends) + 1
          /\ Tail(dividends') = dividends]_vars

\* from the 25th on, with the current month and the month after both missing,
\* reconcile added the current month only
C21_Witness ==
    /\ Added
    /\ GetDate(today[1]) >= 25
    /\ ThisMonth(dividends[1])
    /\ Tail(dividends) # <<>>
    /\ SelectSeq(Tail(dividends), ThisMonth) = <<>>
    /\ SelectSeq(dividends, InFollowingMonth) = <<>>


\* C23 as claimed: the record reconcile adds has a number for its amount,
\* also when the series it was given is empty
C23_ReconcileAmountIsANumber ==
    Added => IsFinite(dividends[1].dividend)


\* C29 as claimed: on every day >= 25, with a record for the current month
\* and none for the month after, the announcement test reconcile makes for
\* the month after passes, so that on some draw it adds that month's record
C29_WindowOpenFromThe25th ==
    (/\ GetDate(today[1]) >= 25
     /\ SelectSeq(dividends, ThisMonth) # <<>>
     /\ SelectSeq(dividends, InFollowingMonth) = <<>>)
    => \E rAnnounce, rEarly \in Draws :
          LET d == NewDividendDecision(dividends, today, rAnnounce, rEarly)
          IN  d.add /\ "earlyAnnouncement" \in d.flags

-----------------------------------------------------------------------------
(* SpecScenario: the dashboard loads its data, then the user works the      *)
(* investment amount and the scenario builder                               *)

\* a series holding only the May 2025 record of the static table
MayOnly == <<baseDividends[2]>>

\* what fetchDividendHistory can resolve to: no record, the May record alone,
\* or the first records of the static table
FetchedSeries ==
    {<<>>, MayOnly} \cup {SubSeq(baseDividends, 1, k) : k \in 1..MaxSeriesLen}

\* what fetchRealTimePrice can resolve to: a provider's quote or the fallback
FetchedPrices ==
    {FallbackPrice, PriceSnapshot(Zero, Zero, FALSE),
     PriceSnapshot(Rat(-2512, 100), Rat(2470, 100), FALSE)}

\* 10 May 2025 and 10 January 2026: after the announcement period of the
\* month and before its pay date, when checkForNewDividendData adds no record
LoadInstants ==
    {<<MakeDay(NewestYear, NewestMonth - 1, 10), 0>>,
     <<MakeDay(NewestYear + 1, 0, 10), 0>>}

InitScenario ==
    /\ dividends \in FetchedSeries
    /\ \E price \in FetchedPrices : currentPrice = price.currentPrice
    /\ today \in LoadInstants
    /\ tz = 60
    /\ input = dividends
    /\ out = Idle
    /\ Constructed
    /\ Offline

\* the effect on every state change: if (!loading && !error)
\* setCalculatedResults(calculateReturns(investmentAmount)), evaluated in the
\* state the change leads to
Recalculated ==
    calculatedResults' =
        IF ~loading' /\ error' = ""
        THEN calculateReturns(investmentAmount', priceData'.currentPrice,
                              averageMonthlyDividend', dividendHistory',
                              useCustomDividend', customDividendAmount',
                              scenarioName', today)
        ELSE calculatedResults

\* the last two events, newest last: "bullish" and "reset" for these two
\* presets applied, "other" for anything else the user did
Noted(event) ==
    LET kind == IF event \in {"bullish", "reset"} THEN event ELSE "other"
    IN  events' = IF Len(events) < 2 THEN Append(events, kind)
                  ELSE <<events[2], kind>>

\* the main content is rendered
Rendered == mounted /\ ~loading /\ error = ""

\* loadData, from its two fetches to its finally
LoadData ==
    /\ mounted
    /\ inflight > 0
    /\ inflight' = inflight - 1
    /\ runs' = Tail(runs)
    /\ \E price \in FetchedPrices :
       \E result \in checkForNewDividendData(dividends, price.currentPrice,
                                             today, tz) :
          /\ price.currentPrice = currentPrice
          /\ priceData' = price
          /\ dividendHistory' = SortNewestFirst(result)
          /\ averageMonthlyDividend' = AverageDividend(SortNewestFirst(result))
          /\ annualYield' = calculateAnnualizedYield(SortNewestFirst(result),
                                                     price.currentPrice)
    /\ loading' = FALSE
    /\ error' = ""
    /\ UNCHANGED <<svcVars, refreshCounter, mounted, timerOn, investmentAmount,
                   uiScenario, events>>
    /\ Recalculated

\* handleRefresh: loadData up to its first await
HandleRefresh ==
    /\ mounted
    /\ ~loading
    /\ loading' = TRUE
    /\ error' = ""
    /\ inflight' = inflight + 1
    /\ runs' = Append(runs, Started(FreeId(runs)))
    /\ Noted("other")
    /\ UNCHANGED <<svcVars, priceData, dividendHistory, averageMonthlyDividend,
                   annualYield, refreshCounter, mounted, timerOn,
                   investmentAmount, uiScenario>>
    /\ Recalculated

\* the amounts of the first, the third and the last of the five buttons
PresetAmounts == {RatInt(a) : a \in {1000, 10000, 50000}}

HandlePresetAmount(amount) ==
    /\ Rendered
    /\ investmentAmount' = amount
    /\ Noted("other")
    /\ UNCHANGED <<svcVars, uiData, uiScenario>>
    /\ Recalculated

\* what parseFloat makes of the text typed into the amount input
TypedAmounts == {NaN, Zero, RatInt(-5), Rat(25005, 10)}

HandleAmountChange(value) ==
    /\ Rendered
    /\ investmentAmount' = IF ~IsNaN(value) /\ RatLT(Zero, value)
                           THEN value ELSE investmentAmount
    /\ Noted("other")
    /\ UNCHANGED <<svcVars, uiData, uiScenario>>
    /\ Recalculated

\* the texts typed into the custom amount input: empty, or a number
TypedDividends == {EmptyText, RatInt(-1), Zero, Rat(15, 10)}

HandleCustomDividendChange(value) ==
    /\ Rendered
    /\ useCustomDividend
    /\ customDividendAmount' =
            IF value = EmptyText \/ RatLE(Zero, value)
            THEN value ELSE customDividendAmount
    /\ Noted("other")
    /\ UNCHANGED <<svcVars, uiData, investmentAmount, useCustomDividend,
                   scenarioName>>
    /\ Recalculated

HandleUseCustomDividendChange ==
    /\ Rendered
    /\ useCustomDividend' = ~useCustomDividend
    /\ Noted("other")
    /\ UNCHANGED <<svcVars, uiData, investmentAmount, customDividendAmount,
                   scenarioName>>
    /\ Recalculated

TypedNames == {"", "My plan"}

HandleScenarioNameChange(name) ==
    /\ Rendered
    /\ useCustomDividend
    /\ scenarioName' = name
    /\ Noted("other")
    /\ UNCHANGED <<svcVars, uiData, investmentAmount, customDividendAmount,
                   useCustomDividend>>
    /\ Recalculated

ApplyPresetScenario(type) ==
    /\ Rendered
    /\ LET scenario == applyPresetScenario(type, averageMonthlyDividend,
                                           dividendHistory)
       IN  /\ customDividendAmount' = scenario.customDividendAmount
           /\ scenarioName' = scenario.scenarioName
           /\ useCustomDividend' = scenario.useCustomDividend
    /\ Noted(type)
    /\ UNCHANGED <<svcVars, uiData, investmentAmount>>
    /\ Recalculated

NextScenario ==
    \/ LoadData
    \/ HandleRefresh
    \/ \E amount \in PresetAmounts : HandlePresetAmount(amount)
    \/ \E value \in TypedAmounts : HandleAmountChange(value)
    \/ \E value \in TypedDividends : HandleCustomDividendChange(value)
    \/ HandleUseCustomDividendChange
    \/ \E name \in TypedNames : HandleScenarioNameChange(name)
    \/ \E type \in PresetTypes : ApplyPresetScenario(type)

SpecScenario == InitScenario /\ [][NextScenario]_vars

\* calculateReturns returned a result, not null
HasResults == "sharesOwned" \in DOMAIN calculatedResults

\* the case of C9: only the May 2025 record, the fallback price, 10000
\* invested, no custom scenario
MayOnlyCase ==
    /\ ~loading
    /\ dividendHistory = MayOnly
    /\ priceData.currentPrice = Rat(2512, 100)
    /\ investmentAmount = RatInt(10000)
    /\ ~CustomActive(useCustomDividend, customDividendAmount)

\* C9 as claimed: in that case the projection gives 398.09 shares and an
\* expected monthly income of 944.58
C9_MayOnlyIncomeIs94458 ==
    MayOnlyCase
    => /\ calculatedResults.sharesOwned = Rat(39809, 100)
       /\ calculatedResults.expectedMonthlyDividend = Rat(94458, 100)

\* C9 as amended: in that case the projection gives 398.09 shares and an
\* expected monthly income of 944.82 (2.3734 * 10000 / 25.12, to two decimals)
C9_MayOnlyProjection ==
    MayOnlyCase
    => /\ calculatedResults.sharesOwned = Rat(39809, 100)
       /\ calculatedResults.expectedMonthlyDividend = Rat(94482, 100)

\* the case has been computed again after the user put the amount back
C9_Witness ==
    /\ MayOnlyCase
    /\ events # <<>>
    /\ HasResults
    /\ calculatedResults.monthlyReturns[1].label = <<"May", 2025>>

\* C10: right after bullish and then reset the scenario is not custom (the
\* box unticked, amount and name empty, the result not flagged custom) and
\* the dividend the projection uses is the sum of the series' amounts over
\* their number
C10_BullishThenResetRestoresAverage ==
    events = <<"bullish", "reset">>
    => LET effective ==
               EffectiveDividendAmount(useCustomDividend, customDividendAmount,
                                       averageMonthlyDividend)
           count == Len(dividendHistory)
       IN  /\ ~useCustomDividend
           /\ customDividendAmount = EmptyText
           /\ scenarioName = ""
           /\ HasResults =>
                /\ ~calculatedResults.isCustomScenario
                /\ calculatedResults.scenarioName = "Historical Average"
                /\ calculatedResults.projectedReturns = <<>>
                /\ calculatedResults.expectedMonthlyDividend =
                      ToFixed(RatMul(effective,
                                     RatDiv(investmentAmount,
                                            priceData.currentPrice)), Scale2)
           /\ IF count = 0 THEN IsNaN(effective)
              ELSE RatMul(effective, RatInt(count)) = SumDividends(dividendHistory)

\* bullish, then reset, on a series of several records with a result shown
C10_Witness ==
    /\ events = <<"bullish", "reset">>
    /\ Len(dividendHistory) > 1
    /\ HasResults
    /\ ~calculatedResults.isCustomScenario

\* C11 as claimed: whenever the price is <= 0 the projection is null
C11_NullForNonPositivePrice ==
    (~loading /\ RatLE(priceData.currentPrice, Zero)) => ~HasResults

\* amount is one of the series' amounts and none is above it (or below it)
IsHighestOf(amount, history) ==
    /\ \E i \in 1..Len(history) : history[i].dividend = amount
    /\ \A i \in 1..Len(history) : RatLE(history[i].dividend, amount)

IsLowestOf(amount, history) ==
    /\ \E i \in 1..Len(history) : history[i].dividend = amount
    /\ \A i \in 1..Len(history) : RatLE(amount, history[i].dividend)

\* x to four decimals is amount: amount is a multiple of 1/10000 within half
\* of 1/10000 of x
IsFourDecimalsOf(amount, x) ==
    /\ Scale4 % amount[2] = 0
    /\ LET diff == RatAdd(RatMul(amount, RatInt(2 * Scale4)),
                          RatMul(x, RatInt(-2 * Scale4)))
       IN  RatLE(RatInt(-1), diff) /\ RatLE(diff, RatInt(1))

\* C15: every step that applies the bullish, bearish, highest or lowest preset
\* to a series with records ticks the custom box and sets the amount to 1.5
\* times the average, half the average, the highest and the lowest amount of
\* the series, to four decimals; the result shown is flagged custom
C15_PresetAmounts ==
    [][\A type \in PresetTypes \ {"reset"} :
          (ApplyPresetScenario(type) /\ dividendHistory # <<>>)
          => /\ useCustomDividend'
             /\ customDividendAmount' # EmptyText
             /\ HasResults' => calculatedResults'.isCustomScenario
             /\ CASE type = "bullish" ->
                       IsFourDecimalsOf(customDividendAmount',
                            RatMul(averageMonthlyDividend, Rat(3, 2)))
                  [] type = "bearish" ->
                       IsFourDecimalsOf(customDividendAmount',
                            RatMul(averageMonthlyDividend, Rat(1, 2)))
                  [] type = "highest" ->
                       IsHighestOf(customDividendAmount', dividendHistory)
                  [] type = "lowest" ->
                       IsLowestOf(customDividendAmount', dividendHistory)]_vars

\* the highest preset is in force on a series of several different amounts
C15_Witness ==
    /\ scenarioName = "Peak Performance"
    /\ HasResults
    /\ calculatedResults.isCustomScenario
    /\ Len(dividendHistory) > 1
    /\ IsHighestOf(customDividendAmount, dividendHistory)
    /\ ~IsLowestOf(customDividendAmount, dividendHistory)

-----------------------------------------------------------------------------
(* SpecFetch: the two fetches of the service against every answer of the    *)
(* three endpoints                                                          *)

FinnhubAnswers ==
    {Down, NotOk, Unparsable, EmptyObject, FinnhubError,
     FinnhubQuote(Rat(2550, 100), Rat(2500, 100))}

PolygonAnswers ==
    {Down, NotOk, Unparsable, EmptyObject, PolygonResults(<<>>),
     PolygonResults(<<[c |-> Rat(2600, 100), o |-> Rat(2500, 100)]>>)}

ProxyAnswers ==
    {Down, NotOk, Unparsable, EmptyObject, ProxyDividends(MayOnly)}

InitFetch ==
    /\ net \in [finnhub : FinnhubAnswers, polygon : PolygonAnswers,
                proxy : ProxyAnswers]
    /\ requests = <<>>
    /\ dividends = <<>>
    /\ currentPrice = Zero
    /\ today \in LoadInstants
    /\ tz = 0
    /\ input = <<>>
    /\ out = Idle
    /\ Constructed

Requested(endpoint) == \E i \in 1..Len(requests) : requests[i] = endpoint

\* await fetchRealTimePrice(), once
CallFetchRealTimePrice ==
    /\ ~Requested("finnhub")
    /\ LET call == fetchRealTimePrice(net)
       IN  /\ out' = Called("fetchRealTimePrice", call.value)
           /\ requests' = requests \o call.requested
    /\ UNCHANGED <<dividends, currentPrice, today, tz, input, net, uiVars>>

\* await fetchDividendHistory(), once
CallFetchDividendHistory ==
    /\ ~Requested("proxy")
    /\ LET call == fetchDividendHistory(net)
       IN  /\ out' = Called("fetchDividendHistory", call.value)
           /\ requests' = requests \o call.requested
    /\ UNCHANGED <<dividends, currentPrice, today, tz, input, net, uiVars>>

NextFetch == CallFetchRealTimePrice \/ CallFetchDividendHistory

SpecFetch == InitFetch /\ [][NextFetch]_vars

\* the endpoint did not deliver a body that parses
RequestFailed(answer) ==
    answer.status # "ok" \/ answer.body.kind = "unparsable"

TimesRequested(endpoint) ==
    Cardinality({i \in 1..Len(requests) : requests[i] = endpoint})

\* C13 as claimed: fetchRealTimePrice resolves with a snapshot, after a failure
\* of the primary provider having asked the backup once, after a failure of
\* both with the static snapshot of price 25.12; fetchDividendHistory resolves
\* with a sequence of records, the static table when its request failed
C13_FetchesAlwaysResolve ==
    /\ out.op = "fetchRealTimePrice"
       => /\ "currentPrice" \in DOMAIN out.value
          /\ (RequestFailed(net.finnhub) \/ net.finnhub = FinnhubError)
             => /\ TimesRequested("polygon") = 1
                /\ RequestFailed(net.polygon)
                   => /\ out.value.fallback
                      /\ out.value.currentPrice = Rat(2512, 100)
    /\ out.op = "fetchDividendHistory"
       => /\ out.value.type = "array"
          /\ RequestFailed(net.proxy) => out.value.items = baseDividends

-----------------------------------------------------------------------------
(* SpecLifecycle: the mounted dashboard, its timer and its refreshes, and   *)
(* its unmounting                                                           *)

\* the timer's callback, setRefreshCounter(prev => prev + 1), and the effect
\* on refreshCounter that follows: refreshCounter > 0, so loadData starts
TimerTick ==
    /\ timerOn
    /\ refreshCounter < MaxTicks
    /\ refreshCounter' = refreshCounter + 1
    /\ loading' = TRUE
    /\ error' = ""
    /\ inflight' = inflight + 1
    /\ runs' = Append(runs, Started(FreeId(runs)))
    /\ UNCHANGED <<svcVars, priceData, dividendHistory, averageMonthlyDividend,
                   annualYield, mounted, timerOn, investmentAmount, uiScenario,
                   events>>
    /\ Recalculated

\* a slip: the effect returns no cleanup
Unmount_TimerLeftSet ==
    /\ mounted
    /\ mounted' = FALSE
    /\ UNCHANGED <<svcVars, priceData, dividendHistory, averageMonthlyDividend,
                   annualYield, loading, error, refreshCounter, timerOn,
                   inflight, runs, investmentAmount, uiScenario,
                   calculatedResults, events>>

\* the component unmounts: the effect's cleanup, clearInterval(refreshInterval)
Unmount ==
    /\ mounted
    /\ mounted' = FALSE
    /\ timerOn' = FALSE
    /\ UNCHANGED <<svcVars, priceData, dividendHistory, averageMonthlyDividend,
                   annualYield, loading, error, refreshCounter, inflight,
                   runs, investmentAmount, uiScenario, calculatedResults,
                   events>>

\* a loadData run finishing after the unmount: its set-state calls change
\* nothing
DropLoad ==
    /\ ~mounted
    /\ inflight > 0
    /\ inflight' = inflight - 1
    /\ runs' = Tail(runs)
    /\ UNCHANGED <<svcVars, priceData, dividendHistory, averageMonthlyDividend,
                   annualYield, loading, error, refreshCounter, mounted, timerOn,
                   investmentAmount, uiScenario, calculatedResults, events>>

NextLifecycle ==
    \/ LoadData
    \/ HandleRefresh
    \/ TimerTick
    \/ Unmount
    \/ DropLoad

SpecLifecycle == InitScenario /\ [][NextLifecycle]_vars

\* C14: once the dashboard has unmounted its timer is cleared: no step
\* increments the refresh counter and none starts a refresh
C14_UnmountClearsTheTimer ==
    /\ [](~mounted => ~timerOn)
    /\ [][~mounted => (refreshCounter' = refreshCounter /\ inflight' <= inflight)]_vars

\* unmounted after a tick, with ticks left to come and a refresh still running
C14_Witness ==
    /\ ~mounted
    /\ refreshCounter > 0
    /\ refreshCounter < MaxTicks
    /\ inflight > 1

-----------------------------------------------------------------------------
(* SpecProjection: the dashboard loaded late in a month from a series of    *)
(* any length, then the user sets an amount and a custom dividend           *)

\* the two newest records of the static table, and the whole table (more
\* than the 12 records of the trailing year)
ProjectionSeries == {SubSeq(baseDividends, 1, 2), baseDividends}

\* the 10th and the last four days of May 2025, a month the series has a
\* record for, as it has for June: checkForNewDividendData adds nothing
ProjectionDays == {10, 28, 29, 30, 31}

ProjectionInstants ==
    {<<MakeDay(NewestYear, NewestMonth - 1, d), 0>> : d \in ProjectionDays}

InitProjection ==
    /\ dividends \in ProjectionSeries
    /\ \E price \in FetchedPrices : currentPrice = price.currentPrice
    /\ today \in ProjectionInstants
    /\ tz = 60
    /\ input = dividends
    /\ out = Idle
    /\ Constructed
    /\ Offline

NextProjection ==
    \/ LoadData
    \/ \E amount \in PresetAmounts : HandlePresetAmount(amount)
    \/ \E value \in TypedDividends : HandleCustomDividendChange(value)
    \/ HandleUseCustomDividendChange

SpecProjection == InitProjection /\ [][NextProjection]_vars

\* the dashboard shows figures computed from a price above zero
FiguresShown ==
    /\ Rendered
    /\ HasResults
    /\ RatLT(Zero, priceData.currentPrice)

\* C24: for a price above zero the figures shown are, to two decimals: the
\* monthly income, the effective dividend (the custom amount when a custom
\* scenario is on, the mean of all the series' amounts otherwise) times the
\* shares owned; the annual income, 12 times that; the effective annual
\* yield, effective * 12 / price * 100; the trailing 12-month return, the
\* sum of the up to 12 most recent amounts times the shares owned
C24_FiguresCompose ==
    FiguresShown =>
        LET price == priceData.currentPrice
            shares == RatDiv(investmentAmount, price)
            effective ==
                IF useCustomDividend /\ customDividendAmount # EmptyText
                THEN customDividendAmount
                ELSE AverageDividend(dividendHistory)
            monthly == RatMul(effective, shares)
            recent == SubSeq(dividendHistory, 1, Min(12, Len(dividendHistory)))
        IN  /\ calculatedResults.expectedMonthlyDividend = ToFixed(monthly, Scale2)
            /\ calculatedResults.expectedAnnualDividend
                    = ToFixed(RatMul(monthly, RatInt(12)), Scale2)
            /\ calculatedResults.expectedAnnualYieldPercentage
                    = ToFixed(RatMul(RatDiv(RatMul(effective, RatInt(12)), price),
                                     RatInt(100)), Scale2)
            /\ calculatedResults.historicalReturn
                    = ToFixed(RatMul(SumDividends(recent), shares), Scale2)

\* a custom amount of 1.50 is on over the whole table, 15 records
C24_Witness ==
    /\ FiguresShown
    /\ useCustomDividend
    /\ customDividendAmount = Rat(15, 10)
    /\ Len(dividendHistory) > 12
    /\ investmentAmount = RatInt(50000)

\* today's month moved on by k months: its year and its index from 0
MonthAhead(k) ==
    LET months == GetFullYear(today[1]) * 12 + GetMonth(today[1]) + k
    IN  <<monthNames[(months % 12) + 1], months \div 12>>

\* C25 as claimed: with a custom scenario on, the projection has 12 entries
\* labelled with the 12 consecutive calendar months from today's on, each
\* carrying the custom amount and marked projected, on every day of the month
C25_TwelveConsecutiveMonths ==
    (Rendered /\ HasResults /\ calculatedResults.isCustomScenario)
    => /\ Len(calculatedResults.projectedReturns) = 12
       /\ \A k \in 1..12 :
            LET entry == calculatedResults.projectedReturns[k]
            IN  /\ entry.label = MonthAhead(k - 1)
                /\ entry.dividend = customDividendAmount
                /\ entry.isProjected

-----------------------------------------------------------------------------
(* SpecRefresh: loadData followed from await to await, several runs at a    *)
(* time; each request finds the network in one of its conditions, which     *)
(* the run's local constants record with the endpoints it requested         *)

RunIds == 1..MaxRuns

\* the network as a request can find it: Finnhub quoting 25.50 and the proxy
\* serving the May record; or both price providers down and the proxy
\* answering an object without dividends
RefreshNetworks ==
    {[finnhub |-> FinnhubQuote(Rat(2550, 100), Rat(2500, 100)),
      polygon |-> Down, proxy |-> ProxyDividends(MayOnly)],
     [finnhub |-> Down, polygon |-> Down, proxy |-> EmptyObject]}

\* 10 May 2025, when checkForNewDividendData adds nothing to a series that
\* has the May record
InitRefresh ==
    /\ dividends = <<>>
    /\ currentPrice = Rat(2512, 100)
    /\ today = <<MakeDay(NewestYear, NewestMonth - 1, 10), 0>>
    /\ tz = 60
    /\ input = dividends
    /\ out = Idle
    /\ Constructed
    /\ Offline

\* the run that goes by id stands at the given await
AtStage(i, id, stage) ==
    /\ i \in 1..Len(runs)
    /\ runs[i].id = id
    /\ runs[i].stage = stage

RemoveAt(s, i) == SubSeq(s, 1, i - 1) \o SubSeq(s, i + 1, Len(s))

\* the run's constants once fetchRealTimePrice has resolved
PriceReceived(run, answer) ==
    [run EXCEPT !.stage = "history", !.price = answer.value,
                !.requested = answer.requested]

\* the run's constants once fetchDividendHistory has resolved and
\* checkForNewDividendData has returned
HistoryReceived(run, answer, result) ==
    [run EXCEPT !.stage = "reconcile", !.dividends = result,
                !.requested = @ \o answer.requested]

\* const price = await fetchRealTimePrice(); setPriceData(price); then
\* fetchDividendHistory() is called
ReceivePrice(id) ==
    /\ mounted
    /\ \E i \in 1..Len(runs), network \in RefreshNetworks :
          LET answer == fetchRealTimePrice(network)
          IN  /\ AtStage(i, id, "price")
              /\ priceData' = answer.value
              /\ runs' = [runs EXCEPT ![i] = PriceReceived(@, answer)]
    /\ UNCHANGED <<svcVars, dividendHistory, averageMonthlyDividend,
                   annualYield, loading, error, refreshCounter, mounted,
                   timerOn, inflight, investmentAmount, uiScenario, events>>
    /\ Recalculated

\* what checkForNewDividendData resolves to for what fetchDividendHistory
\* resolved to: for undefined, .some throws inside its try and the catch
\* returns the argument
Reconciled(fetched, price, now, offset) ==
    IF fetched.type = "array"
    THEN {ArrayOf(result) :
            result \in checkForNewDividendData(fetched.items, price, now, offset)}
    ELSE {fetched}

\* let dividends = await fetchDividendHistory(); then
\* checkForNewDividendData(dividends, price.currentPrice) runs to its return
ReceiveHistory(id) ==
    /\ mounted
    /\ \E i \in 1..Len(runs), network \in RefreshNetworks :
          LET answer == fetchDividendHistory(network)
          IN  /\ AtStage(i, id, "history")
              /\ \E result \in Reconciled(answer.value,
                                          runs[i].price.currentPrice, today, tz) :
                    runs' = [runs EXCEPT ![i] =
                                HistoryReceived(@, answer, result)]
    /\ UNCHANGED <<svcVars, priceData, dividendHistory,
                   averageMonthlyDividend, annualYield, loading, error,
                   refreshCounter, mounted, timerOn, inflight,
                   investmentAmount, uiScenario, calculatedResults, events>>

\* a slip: setLoading(false) left out
SetLoadingFalse_Forgotten == loading' = loading

\* finally { setLoading(false) }
SetLoadingFalse == loading' = FALSE

\* dividends = await checkForNewDividendData(...); the sort, the four
\* set-state calls and the finally; dividends.sort of undefined throws, and
\* the catch sets the error
FinishLoad(id) ==
    /\ mounted
    /\ \E i \in 1..Len(runs) :
          /\ AtStage(i, id, "reconcile")
          /\ IF runs[i].dividends.type = "array"
             THEN LET sorted == SortNewestFirst(runs[i].dividends.items)
                  IN  /\ dividendHistory' = sorted
                      /\ averageMonthlyDividend' = AverageDividend(sorted)
                      /\ annualYield' =
                            calculateAnnualizedYield(sorted,
                                                     runs[i].price.currentPrice)
                      /\ error' = error
             ELSE /\ error' = "Failed to load data"
                  /\ UNCHANGED <<dividendHistory, averageMonthlyDividend,
                                 annualYield>>
          /\ runs' = RemoveAt(runs, i)
    /\ inflight' = inflight - 1
    /\ SetLoadingFalse
    /\ UNCHANGED <<svcVars, priceData, refreshCounter, mounted, timerOn,
                   investmentAmount, uiScenario, events>>
    /\ Recalculated

NextRefresh ==
    \/ \E id \in RunIds : ReceivePrice(id)
    \/ \E id \in RunIds : ReceiveHistory(id)
    \/ \E id \in RunIds : FinishLoad(id)
    \/ (inflight < MaxRuns /\ HandleRefresh)
    \/ (inflight < MaxRuns /\ TimerTick)

SpecRefresh == InitRefresh /\ [][NextRefresh]_vars

\* what the steps of the run that goes by id make of runs: ReceivePrice,
\* ReceiveHistory or FinishLoad, whichever await the run stands at
Continues(id) ==
    \E i \in 1..Len(runs), network \in RefreshNetworks :
        /\ runs[i].id = id
        /\ \/ /\ runs[i].stage = "price"
              /\ runs' = [runs EXCEPT ![i] =
                            PriceReceived(@, fetchRealTimePrice(network))]
           \/ /\ runs[i].stage = "history"
              /\ \E result \in Reconciled(fetchDividendHistory(network).value,
                                          runs[i].price.currentPrice, today, tz) :
                    runs' = [runs EXCEPT ![i] =
                                HistoryReceived(@, fetchDividendHistory(network),
                                                result)]
           \/ /\ runs[i].stage = "reconcile"
              /\ runs' = RemoveAt(runs, i)

\* every request is answered in the end, and the continuation of every
\* settled await is run: no run in flight waits for ever
SpecRefreshFair ==
    /\ SpecRefresh
    /\ \A id \in RunIds : WF_runs(Continues(id))

\* C26 as claimed: once no refresh is in flight and none has failed, the
\* stored price, series and annual yield come from one and the same refresh:
\* the stored yield is the annualized yield of the stored series at the
\* stored price
C26_StoredStateFromOneRefresh ==
    (runs = <<>> /\ error = "")
    => annualYield = calculateAnnualizedYield(dividendHistory,
                                              priceData.currentPrice)

\* the run that goes by id is in flight
InFlight(id) == \E i \in 1..Len(runs) : runs[i].id = id

NoRepeats(s) == \A i, j \in 1..Len(s) : s[i] = s[j] => i = j

\* C27: with every request answered in the end, every refresh that starts
\* finishes, whether its fetches succeeded or failed, and the step that
\* finishes it leaves loading false; no run requests a provider twice
C27_EveryRefreshFinishes ==
    /\ \A id \in RunIds : InFlight(id) ~> ~InFlight(id)
    /\ [][Len(runs') < Len(runs) => ~loading']_vars
    /\ [](\A i \in 1..Len(runs) : NoRepeats(runs[i].requested))

\* a refresh started by the timer has finished on the catch, after both price
\* providers and the proxy were requested
C27_Witness ==
    /\ runs = <<>>
    /\ ~loading
    /\ error # ""
    /\ refreshCounter > 0
    /\ priceData.fallback

\* C30 as claimed: loading is true whenever a refresh is in flight
C30_LoadingWhileInFlight == runs # <<>> => loading

-----------------------------------------------------------------------------
(* SpecCycles: refresh after refresh within June 2025, past the 12th, the   *)
(* source serving no record for June                                        *)

\* 13 June 2025
CycleInstant == <<MakeDay(NewestYear, NewestMonth, 13), 0>>

InitCycles ==
    /\ dividends = MayOnly
    /\ currentPrice = FallbackPrice.currentPrice
    /\ today = CycleInstant
    /\ tz = 60
    /\ input = dividends
    /\ out = Idle
    /\ Constructed
    /\ Offline

NextCycles ==
    \/ LoadData
    \/ HandleRefresh

SpecCycles == InitCycles /\ [][NextCycles]_vars

\* a record the service made up
Synthesized(div) == div.flags # {}

SameDividend(a, b) ==
    /\ a.month = b.month
    /\ a.year = b.year
    /\ a.dividend = b.dividend
    /\ a.exDate = b.exDate
    /\ a.payDate = b.payDate

\* C28 as claimed: once the displayed series holds a synthesized record for
\* a month, the series displayed after any later step holds a record for
\* that month with the same amount and dates
C28_SynthesizedRecordsStay ==
    [][\A i \in 1..Len(dividendHistory) :
          Synthesized(dividendHistory[i])
          => \E j \in 1..Len(dividendHistory') :
                SameDividend(dividendHistory[i], dividendHistory'[j])]_vars

=============================================================================
